---- MODULE Spec2Model ----
(***************************************************************************)
(* Model of ShapesDemo/main.cpp: the Shape class hierarchy, loadList and   *)
(* main (sort by area, aggregation pass, final output).                    *)
(*                                                                         *)
(* Numbers.  The program computes in double.  The model draws every        *)
(* numeric token from small non-negative integers and computes in fixed    *)
(* point with Scale units per 1.0, so 3.14159 is the integer PI.  The       *)
(* square root of Triangle::area is taken to three decimals.  On the       *)
(* values the model draws this orders areas exactly as the doubles do.     *)
(* A value that is "not a number" is carried by the nan field.             *)
(***************************************************************************)
EXTENDS Integers, Sequences, FiniteSets

\* ---- bounds of the model ------------------------------------------------
MaxLines == 2          \* lines in shapes.txt
MaxVal == 1            \* well-formed numeric tokens are 1..MaxVal
MaxGarbage == 1        \* an indeterminate double is one of 0..MaxGarbage

\* ---- program constants --------------------------------------------------
Scale == 100000
PI == 314159
EXIT_FAILURE == 1
EXIT_SUCCESS == 0

\* ---- numbers --------------------------------------------------------------
Num(v) == [nan |-> FALSE, v |-> v]
NaN == [nan |-> TRUE, v |-> 0]

\* operator< of double: every comparison with a NaN is false
Less(x, y) == ~x.nan /\ ~y.nan /\ x.v < y.v
\* operator<= of double
LessEq(x, y) == ~x.nan /\ ~y.nan /\ x.v <= y.v

RECURSIVE ISqrtIter(_, _, _)
ISqrtIter(x, lo, hi) ==
    IF lo >= hi THEN lo
    ELSE LET mid == (lo + hi + 1) \div 2
         IN  IF mid * mid <= x THEN ISqrtIter(x, mid, hi)
                               ELSE ISqrtIter(x, lo, mid - 1)

\* sqrt of a non-negative integer, rounded down
ISqrt(x) == ISqrtIter(x, 0, 46340)

\* ---- the Shape hierarchy ------------------------------------------------
\* id is the identity of the object the shared_ptr owns (its allocation index)
Circle(r, id) == [kind |-> "Circle", radius |-> r, id |-> id]

Rectangle(l, w, id) ==
    [kind |-> "Rectangle", length |-> l, width |-> w, nSides |-> 4, id |-> id]

Square(side, id) == [Rectangle(side, side, id) EXCEPT !.kind = "Square"]

Triangle(a, b, c, id) ==
    [kind |-> "Triangle", sides |-> <<a, b, c>>, nSides |-> 3, id |-> id]

\* mutant: Square not derived from Polygon
IsPolygonMut(s) == s.kind \in {"Rectangle", "Triangle"}

\* dynamic_pointer_cast<Polygon>(shape) yields a non-null pointer
IsPolygon(s) == s.kind \in {"Rectangle", "Square", "Triangle"}

CircleArea(s) == Num(PI * s.radius * s.radius)
CirclePerimeter(s) == 2 * PI * s.radius

RectangleArea(s) == Num(s.length * s.width * Scale)

\* mutant: the parenthesis of 2 * (length + width) dropped
RectanglePerimeterMut(s) == (2 * s.length + s.width) * Scale

RectanglePerimeter(s) == 2 * (s.length + s.width) * Scale

\* 0.25 * sqrt(p): sqrt of a negative number is NaN
TriangleArea(s) ==
    LET a == s.sides[1]
        b == s.sides[2]
        c == s.sides[3]
        p == (a + b + c) * (-a + b + c) * (a - b + c) * (a + b - c)
    IN  IF p < 0 THEN NaN ELSE Num(ISqrt(62500 * p) * 100)
TrianglePerimeter(s) == (s.sides[1] + s.sides[2] + s.sides[3]) * Scale

\* virtual dispatch of area() and perimeter()
area(s) ==
    CASE s.kind = "Circle" -> CircleArea(s)
      [] s.kind \in {"Rectangle", "Square"} -> RectangleArea(s)
      [] s.kind = "Triangle" -> TriangleArea(s)

perimeter(s) ==
    CASE s.kind = "Circle" -> CirclePerimeter(s)
      [] s.kind \in {"Rectangle", "Square"} -> RectanglePerimeter(s)
      [] s.kind = "Triangle" -> TrianglePerimeter(s)

\* typeid(*shape).name() + 6, with names of the form "class Circle"
TypeName(s) == s.kind

\* ---- the input file ----------------------------------------------------
\* A line is its first non-blank character (NoCode on an empty or
\* whitespace-only line), the well-formed numbers that follow it, and
\* whether a token that is not a number comes right after them.
NoCode == ""
KnownCodes == {"C", "R", "S", "T"}
Codes == KnownCodes \cup {"X"}

\* numeric parameters the switch reads for a type code
Arity(code) ==
    CASE code \in {"C", "S"} -> 1
      [] code = "R" -> 2
      [] code = "T" -> 3
      [] OTHER -> 0

SeqsUpTo(vals, n) == UNION {[1..k -> vals] : k \in 0..n}

BlankLine == [code |-> NoCode, nums |-> <<>>, bad |-> FALSE]

LinesOver(vals) ==
    {BlankLine} \cup
    UNION {{[code |-> cd, nums |-> ns, bad |-> bd] :
                ns \in SeqsUpTo(vals, Arity(cd)),
                bd \in BOOLEAN} : cd \in Codes}

WellFormedLine(l) == l.bad => Len(l.nums) < Arity(l.code)

Lines == {l \in LinesOver(1..MaxVal) : WellFormedLine(l)}

\* indeterminate values of the locals shapeType, a, b, c of one iteration
Garbage == [shapeType : Codes, a : 0..MaxGarbage, b : 0..MaxGarbage,
            c : 0..MaxGarbage]

\* the k-th "ss >> double" of the iteration, into a variable holding old:
\* a number is stored; a token that is no number stores 0 and fails the
\* stream; at the end of the line or on a failed stream nothing is stored
Extract(line, k, old) ==
    IF k <= Len(line.nums) THEN line.nums[k]
    ELSE IF k = Len(line.nums) + 1 /\ line.bad THEN 0
    ELSE old

\* "ss >> shapeType": nothing is stored when the line holds no character
ExtractCode(line, old) == IF line.code = NoCode THEN old ELSE line.code

\* one iteration of the while loop of loadList on shapes sh and stderr er,
\* the locals holding the indeterminate values g before the extractions
LoopBody(line, g, sh, er) ==
    LET shapeType == ExtractCode(line, g.shapeType)
        a == Extract(line, 1, g.a)
        b == Extract(line, 2, g.b)
        c == Extract(line, 3, g.c)
        id == Len(sh) + 1
    IN  CASE shapeType = "C" ->
               [shapes |-> Append(sh, Circle(a, id)), errs |-> er]
          [] shapeType = "T" ->
               [shapes |-> Append(sh, Triangle(a, b, c, id)), errs |-> er]
          [] shapeType = "R" ->
               [shapes |-> Append(sh, Rectangle(a, b, id)), errs |-> er]
          [] shapeType = "S" ->
               [shapes |-> Append(sh, Square(a, id)), errs |-> er]
          [] OTHER ->
               [shapes |-> sh, errs |-> Append(er, shapeType)]

\* what one iteration can leave in shapes and stderr
Outcomes(line, sh, er) == {LoopBody(line, g, sh, er) : g \in Garbage}

\* ---- std::sort with the area comparator -------------------------------
Perms(n) == {f \in [1..n -> 1..n] : \A i, j \in 1..n : i # j => f[i] # f[j]}

Permute(sh, f) == [i \in 1..Len(sh) |-> sh[f[i]]]

\* the lambda of main
Comp(x, y) == Less(area(x), area(y))

Equiv(x, y) == ~Comp(x, y) /\ ~Comp(y, x)

\* Comp is a strict weak ordering of the elements (what std::sort requires)
StrictWeak(sh) ==
    \A i, j, k \in 1..Len(sh) :
        Equiv(sh[i], sh[j]) /\ Equiv(sh[j], sh[k]) => Equiv(sh[i], sh[k])

SortedBy(sh) == \A i, j \in 1..Len(sh) : i < j => ~Comp(sh[j], sh[i])

\* what std::sort may leave in the vector: a sorted permutation, the order
\* of equivalent elements unspecified; with a comparator that is no strict
\* weak ordering the behaviour is undefined (any permutation here)
SortOutcomes(sh) ==
    LET all == {Permute(sh, f) : f \in Perms(Len(sh))}
    IN  IF StrictWeak(sh) THEN {q \in all : SortedBy(q)} ELSE all

\* ---- the aggregation loop of main -------------------------------------
RECURSIVE SumPerimeter(_, _)
SumPerimeter(sh, i) ==
    IF i > Len(sh) THEN 0 ELSE perimeter(sh[i]) + SumPerimeter(sh, i + 1)

RECURSIVE CountPolygons(_, _)
CountPolygons(sh, i) ==
    IF i > Len(sh) THEN 0
    ELSE (IF IsPolygon(sh[i]) THEN 1 ELSE 0) + CountPolygons(sh, i + 1)

RECURSIVE SumSides(_, _)
SumSides(sh, i) ==
    IF i > Len(sh) THEN 0
    ELSE (IF IsPolygon(sh[i]) THEN sh[i].nSides ELSE 0) + SumSides(sh, i + 1)

\* mutant: the division guarded against zero polygons
AverageMut(sides, polygons) ==
    IF polygons = 0 THEN Num(0) ELSE Num((sides * Scale) \div polygons)

\* totalPolygonSides / totalPolygons in double: 0.0 / 0 is NaN
Average(sides, polygons) ==
    IF polygons = 0 THEN NaN ELSE Num((sides * Scale) \div polygons)

\* ---- the final output ---------------------------------------------------
ShapeLine(s) == [label |-> TypeName(s), value |-> Num(s.id)]
TextLine(label, value) == [label |-> label, value |-> value]

Summary(sh, per, polys, sides) ==
    << TextLine("", Num(0)),
       TextLine("Total Shapes: ", Num(Len(sh))),
       TextLine("Total Perimeter of all shapes: ", Num(per)),
       TextLine("Total Polygons: ", Num(polys)),
       TextLine("Average Polygon Sides: ", Average(sides, polys)) >>

\* ---- state ----------------------------------------------------------------
VARIABLES
    pc,                 \* position of main / loadList
    opens,              \* whether ifstream infile(filename) succeeds
    lineNo,             \* lines getline has returned so far
    shapes,             \* vector<ShapePtr> shapes
    errs,               \* cerr: the code named by each warning
    totalPolygons, totalPolygonSides, totalPerimeter,
    out,                \* cout
    exitStatus,         \* <<status>> once the process has ended
    file,               \* history: the lines read (SpecFile, SpecPair)
    fileB, shapesB, errsB,   \* a second run of loadList (SpecPair)
    diff                \* the line at which the second run's file differs

vars == <<pc, opens, lineNo, shapes, errs, totalPolygons, totalPolygonSides,
          totalPerimeter, out, exitStatus, file, fileB, shapesB, errsB, diff>>

mainVars == <<totalPolygons, totalPolygonSides, totalPerimeter, out>>
runB == <<fileB, shapesB, errsB, diff>>

Init ==
    /\ pc = "open"
    /\ opens \in BOOLEAN
    /\ lineNo = 0
    /\ shapes = <<>>
    /\ errs = <<>>
    /\ totalPolygons = 0
    /\ totalPolygonSides = 0
    /\ totalPerimeter = 0
    /\ out = <<>>
    /\ exitStatus = <<>>
    /\ file = <<>>
    /\ fileB = <<>>
    /\ shapesB = <<>>
    /\ errsB = <<>>
    /\ diff = 0

\* mutant: the check of the stream dropped
OpenFailMut ==
    /\ pc = "open"
    /\ ~opens
    /\ pc' = "load"
    /\ UNCHANGED <<opens, lineNo, shapes, errs, mainVars, exitStatus, file, runB>>

\* if (!infile) { exit(EXIT_FAILURE); }
OpenFail ==
    /\ pc = "open"
    /\ ~opens
    /\ pc' = "exit"
    /\ exitStatus' = <<EXIT_FAILURE>>
    /\ UNCHANGED <<opens, lineNo, shapes, errs, mainVars, file, runB>>

OpenOk ==
    /\ pc = "open"
    /\ opens
    /\ pc' = "load"
    /\ UNCHANGED <<opens, lineNo, shapes, errs, mainVars, exitStatus, file,
                   runB>>

\* getline returns line: one iteration of the loop
LoadStep(line) ==
    /\ pc = "load"
    /\ lineNo < MaxLines
    /\ lineNo' = lineNo + 1
    /\ \E r \in Outcomes(line, shapes, errs) :
          /\ shapes' = r.shapes
          /\ errs' = r.errs
    /\ UNCHANGED <<pc, opens, mainVars, exitStatus>>

LoadLine ==
    \E line \in Lines : LoadStep(line) /\ UNCHANGED <<file, runB>>

\* getline fails at the end of the file; infile.close(); loadList returns
LoadEof ==
    /\ pc = "load"
    /\ pc' = "sort"
    /\ UNCHANGED <<opens, lineNo, shapes, errs, mainVars, exitStatus, file,
                   runB>>

Sort ==
    /\ pc = "sort"
    /\ shapes' \in SortOutcomes(shapes)
    /\ pc' = "aggregate"
    /\ UNCHANGED <<opens, lineNo, errs, mainVars, exitStatus, file, runB>>

Aggregate ==
    /\ pc = "aggregate"
    /\ totalPerimeter' = totalPerimeter + SumPerimeter(shapes, 1)
    /\ totalPolygons' = totalPolygons + CountPolygons(shapes, 1)
    /\ totalPolygonSides' = totalPolygonSides + SumSides(shapes, 1)
    /\ pc' = "output"
    /\ UNCHANGED <<opens, lineNo, shapes, errs, out, exitStatus, file, runB>>

\* the final outputs and return 0
Output ==
    /\ pc = "output"
    /\ out' = [i \in 1..Len(shapes) |-> ShapeLine(shapes[i])] \o
              Summary(shapes, totalPerimeter, totalPolygons, totalPolygonSides)
    /\ exitStatus' = <<EXIT_SUCCESS>>
    /\ pc' = "done"
    /\ UNCHANGED <<opens, lineNo, shapes, errs, totalPolygons,
                   totalPolygonSides, totalPerimeter, file, runB>>

Next ==
    \/ OpenFail
    \/ OpenOk
    \/ LoadLine
    \/ LoadEof
    \/ Sort
    \/ Aggregate
    \/ Output

\* the whole program
Spec == Init /\ [][Next]_vars

\* ---- the program with the lines it has read kept as history -------------
ReadLine ==
    \E line \in Lines :
        LoadStep(line) /\ file' = Append(file, line) /\ UNCHANGED runB

NextFile ==
    \/ OpenFail
    \/ OpenOk
    \/ ReadLine
    \/ LoadEof
    \/ Sort
    \/ Aggregate
    \/ Output

SpecFile == Init /\ [][NextFile]_vars

\* ---- two runs of loadList on files that differ in at most one line ----
\* the second run's iteration on lineB
LoadStepB(lineB) ==
    \E r \in Outcomes(lineB, shapesB, errsB) :
        /\ fileB' = Append(fileB, lineB)
        /\ shapesB' = r.shapes
        /\ errsB' = r.errs

ReadPair ==
    \E line \in Lines :
        /\ LoadStep(line)
        /\ file' = Append(file, line)
        /\ \/ LoadStepB(line) /\ diff' = diff
           \/ /\ diff = 0
              /\ diff' = lineNo + 1
              /\ \E lineB \in Lines \ {line} : LoadStepB(lineB)

NextPair ==
    \/ OpenFail
    \/ OpenOk
    \/ ReadPair
    \/ LoadEof

SpecPair == Init /\ [][NextPair]_vars

\* ---- helpers of the properties ------------------------------------------
AfterSort == pc \in {"aggregate", "output", "done"}
AfterAggregation == pc \in {"output", "done"}

Indices(sh, kinds) == {i \in 1..Len(sh) : sh[i].kind \in kinds}
Count(sh, kinds) == Cardinality(Indices(sh, kinds))

\* a == b of double
SameArea(x, y) == ~area(x).nan /\ ~area(y).nan /\ area(x).v = area(y).v

\* the shape a printed line stands for
Printed(i) == CHOOSE s \in {shapes[k] : k \in 1..Len(shapes)} : s.id = out[i].value.v
NumPrinted == Len(out) - 5

\* the perimeter the data model gives each variant
ModelPerimeter(s) ==
    CASE s.kind = "Circle" -> 2 * PI * s.radius
      [] s.kind = "Rectangle" -> 2 * (s.length + s.width) * Scale
      [] s.kind = "Square" -> 4 * s.length * Scale
      [] s.kind = "Triangle" -> (s.sides[1] + s.sides[2] + s.sides[3]) * Scale

RECURSIVE SumOver(_, _)
SumOver(sh, idx) ==
    IF idx = {} THEN 0
    ELSE LET i == CHOOSE k \in idx : TRUE
         IN  ModelPerimeter(sh[i]) + SumOver(sh, idx \ {i})

\* the variant the code table gives a type code
VariantOf(code) ==
    CASE code = "C" -> "Circle"
      [] code = "R" -> "Rectangle"
      [] code = "S" -> "Square"
      [] code = "T" -> "Triangle"

\* the m-th constructor parameter of a shape
Param(s, m) ==
    CASE s.kind = "Circle" -> s.radius
      [] s.kind = "Rectangle" -> IF m = 1 THEN s.length ELSE s.width
      [] s.kind = "Square" -> s.length
      [] s.kind = "Triangle" -> s.sides[m]

Recognized(l) == l.code \in KnownCodes
Unrecognized(l) == l.code \notin KnownCodes \cup {NoCode}
RecognizedLines == SelectSeq(file, Recognized)

\* the step reads a line
Reads == Len(file') = Len(file) + 1
LineRead == file'[Len(file')]

NoPolygon == \A i \in 1..Len(shapes) : shapes[i].kind = "Circle"

Added(old, new) == SubSeq(new, Len(old) + 1, Len(new))
Anonymous(sh) == [i \in 1..Len(sh) |-> [sh[i] EXCEPT !.id = 0]]

\* ---- properties -----------------------------------------------------------

\* C1: the sort is stable: after it, two shapes of equal area stand in the
\* order in which loadList appended them.
C1_StableSort ==
    AfterSort =>
        \A i, j \in 1..Len(shapes) :
            i < j /\ SameArea(shapes[i], shapes[j]) => shapes[i].id < shapes[j].id

\* C2: the shapes printed are a permutation of the shapes loaded, and each
\* printed shape's area is <= the area of the shape printed after it.
C2_PrintedSorted ==
    pc = "done" =>
        /\ NumPrinted = Len(shapes)
        /\ {out[i].value.v : i \in 1..NumPrinted} = 1..Len(shapes)
        /\ \A i \in 1..(NumPrinted - 1) :
              LessEq(area(Printed(i)), area(Printed(i + 1)))

\* C3: a line with an unrecognized code appends no shape, emits one warning
\* naming the code and leaves the loop running, so the number of shapes
\* equals the number of lines read that carry a recognized code.
C3_UnknownCodeSkipped ==
    /\ [][Reads /\ Unrecognized(LineRead) =>
            /\ shapes' = shapes
            /\ errs' = Append(errs, LineRead.code)
            /\ pc' = "load"]_vars
    /\ [](Len(shapes) = Len(RecognizedLines))

\* C4: a blank line appends no shape and emits no warning, so stderr holds
\* one warning per line with an unrecognized code.
C4_BlankLineIgnored ==
    /\ [][Reads /\ LineRead = BlankLine => shapes' = shapes /\ errs' = errs]_vars
    /\ [](Len(errs) = Len(SelectSeq(file, Unrecognized)))

\* C5: when the file does not open the process ends with a failure status
\* with no shape built, no aggregation done and nothing on stdout; when it
\* opens the process never ends with a failure status.
C5_OpenFailureIsFatal ==
    /\ ~opens =>
          /\ pc \in {"open", "exit"}
          /\ shapes = <<>> /\ out = <<>> /\ lineNo = 0
          /\ totalPerimeter = 0 /\ totalPolygons = 0 /\ totalPolygonSides = 0
          /\ exitStatus \in {<<>>, <<EXIT_FAILURE>>}
    /\ pc = "exit" => ~opens /\ exitStatus = <<EXIT_FAILURE>>
    /\ opens => exitStatus \in {<<>>, <<EXIT_SUCCESS>>}

C5_Witness == pc = "exit" /\ ~opens /\ exitStatus = <<EXIT_FAILURE>>

\* C6: after the aggregation pass totalPolygons is the number of Rectangle,
\* Square and Triangle instances and totalPolygonSides is
\* 4 * (#Rectangle + #Square) + 3 * #Triangle.
C6_PolygonTotals ==
    AfterAggregation =>
        /\ totalPolygons = Count(shapes, {"Rectangle", "Square", "Triangle"})
        /\ totalPolygonSides = 4 * Count(shapes, {"Rectangle", "Square"})
                               + 3 * Count(shapes, {"Triangle"})

C6_Witness ==
    /\ pc = "done"
    /\ Count(shapes, {"Circle"}) = 1
    /\ Count(shapes, {"Square"}) = 1
    /\ totalPolygons = 1

\* C7: after the aggregation pass totalPerimeter is the sum of the
\* perimeters of the loaded shapes, each once, and the count printed is the
\* number of shapes.
C7_PerimeterTotal ==
    /\ AfterAggregation => totalPerimeter = SumOver(shapes, 1..Len(shapes))
    /\ pc = "done" =>
          /\ Len(out) = lineNo - Len(errs) + 5
          /\ out[NumPrinted + 2] = TextLine("Total Shapes: ", Num(lineNo - Len(errs)))
          /\ out[NumPrinted + 3] =
                TextLine("Total Perimeter of all shapes: ", Num(totalPerimeter))

C7_Witness ==
    /\ pc = "done"
    /\ Count(shapes, {"Rectangle"}) = 1
    /\ Count(shapes, {"Circle"}) = 1
    /\ totalPerimeter > 0

\* C8: when loadList returns, the k-th shape is the one built from the k-th
\* line with a recognized code: the variant of the code table, the line's
\* parameters in their order.
C8_FileOrder ==
    pc \in {"load", "sort"} =>
    /\ Len(shapes) = Len(RecognizedLines)
    /\ \A k \in 1..Len(shapes) :
          k <= Len(RecognizedLines) =>
              /\ shapes[k].kind = VariantOf(RecognizedLines[k].code)
              /\ \A m \in 1..Len(RecognizedLines[k].nums) :
                    Param(shapes[k], m) = RecognizedLines[k].nums[m]

\* C9: with no polygon loaded the program prints every shape line and the
\* four summary lines, total polygons 0, the average the NaN of 0.0 / 0, and
\* ends with status 0.
C9_NoPolygonAverage ==
    pc = "done" /\ NoPolygon =>
        /\ Len(out) = Len(shapes) + 5
        /\ \A i \in 1..Len(shapes) : out[i] = ShapeLine(shapes[i])
        /\ out[Len(shapes) + 4] = TextLine("Total Polygons: ", Num(0))
        /\ out[Len(shapes) + 5] = TextLine("Average Polygon Sides: ", NaN)
        /\ exitStatus = <<EXIT_SUCCESS>>

C9_Witness == pc = "done" /\ NoPolygon /\ Len(shapes) = 1 /\ Len(errs) = 1

\* C10: in two runs on files that differ in one line, every line the files
\* share produces the same shape (variant and parameters) or warning.
C10_LineIsolation ==
    [][Reads /\ fileB'[Len(fileB')] = LineRead =>
          /\ Anonymous(Added(shapes, shapes')) = Anonymous(Added(shapesB, shapesB'))
          /\ Added(errs, errs') = Added(errsB, errsB')]_vars

====
